---- MODULE Spec2Model ----
(***************************************************************************)
(* The coordination and event-publication subsystem of the POMA MCP server *)
(* (src/server.py): the lock tools acquire_lock / release_lock, the        *)
(* rate-limit tools increment_rate_limit / get_rate_limit, each of which   *)
(* is one call of the process-wide redis_client, and the four publish      *)
(* tools, which serialize a validated record, append it to a Redis stream  *)
(* and, for two of them, insert it into a MongoDB collection.              *)
(*                                                                         *)
(* The stores are the only shared state.  Redis runs one command (or one   *)
(* MULTI/EXEC block) at a time.  A lock or rate-limit handler makes        *)
(* exactly one store call and keeps nothing between calls, so a tool call  *)
(* takes effect at its store call: each action below is one whole tool     *)
(* call, and calls that run concurrently are calls whose actions happen at *)
(* the same instant of the clock, in either order.                         *)
(*                                                                         *)
(* Time is the store's clock in whole seconds.  A key written with an      *)
(* expiry of n seconds at time t carries the deadline t + n and is gone    *)
(* once the clock is past the deadline (Redis removes a key when           *)
(* now > deadline).  Durations handed to the tools are positive.           *)
(*                                                                         *)
(* A store call may fail (connection or command error): the command does   *)
(* not run and the handler's except clause re-raises.  hist records every  *)
(* call with its outcome; the properties below are stated over it.         *)
(***************************************************************************)
EXTENDS Integers, Sequences, FiniteSets, TLC

\* ---------------------------------------------------------------- bounds
MaxTime == 4      \* the clock runs 0..MaxTime
MaxTTL == 2       \* timeout_seconds / window_seconds range over 1..MaxTTL
MaxOps == 4       \* tool calls per behaviour
MaxFaults == 1    \* store calls that fail per behaviour

Callers == {"A", "B"}
Publishers == {"A"}
Holders == Callers \cup {"C"}
Resources == {"r1"}
RateKeys == {"k1"}
Durations == 1..MaxTTL

\* db.audit_logs and db.user_feedback
Collections == {"audit_logs", "user_feedback"}

\* The tool arguments as the client sends them.  timestamp is <<>> when the
\* client leaves it out and <<t>> when it gives the instant t.
AuditArgs ==
    {[log_id |-> "a1", timestamp |-> <<0>>, module |-> "m", procedure |-> "p", status |-> "success"]}

PatchArgs == {[patch_type |-> "add", target_id |-> t] : t \in {"P1", "P2"}}

FeedbackArgs ==
    {[feedback_type |-> "general", message |-> "f1", timestamp |-> <<>>],
     [feedback_type |-> "general", message |-> "f2", timestamp |-> <<0>>]}

WorkflowArgs ==
    {[event_name |-> "E1", workflow_id |-> "w1", status |-> "running", timestamp |-> <<>>],
     [event_name |-> "E2", workflow_id |-> "w1", status |-> "running", timestamp |-> <<0>>]}

\* ------------------------------------------------------------ key names
\* f"mcp:locks:{resource_name}" and f"mcp:rate:{key}": the two prefixes
\* differ, so a lock key never equals a rate key.
LockKey(resource_name) == <<"mcp:locks:", resource_name>>

RateKey(key) == <<"mcp:rate:", key>>

\* "mcp:audit_log_stream", "mcp:ccwj_update_stream", "mcp:user_feedback" and
\* "mcp:workflow_events": none of them starts with a lock or rate prefix.
Topic(name) == <<"mcp:", name>>

Topics ==
    {Topic("audit_log_stream"), Topic("ccwj_update_stream"),
     Topic("user_feedback"), Topic("workflow_events")}

\* ------------------------------------------------------ validated records
\* Python values by their type: str, datetime, dict and None.
Str(s) == [type |-> "str", v |-> s]

Datetime(t) == [type |-> "datetime", v |-> t]

EmptyDict == [type |-> "dict", v |-> "{}"]

None == [type |-> "NoneType", v |-> "None"]

\* datetime.utcnow() at validation when the client gave no timestamp.
TimestampOr(given, t) == IF Len(given) = 0 THEN Datetime(t) ELSE Datetime(given[1])

\* The model instances FastMCP hands to the tools: every declared field is
\* set, an optional one the client left out to its default.
AuditLogEntry(args) ==
    [cls |-> "AuditLogEntry",
     fields |-> [log_id |-> Str(args.log_id), timestamp |-> Datetime(args.timestamp[1]),
                 module |-> Str(args.module), procedure |-> Str(args.procedure),
                 inputs |-> EmptyDict, outputs |-> EmptyDict, status |-> Str(args.status),
                 session_id |-> None, workflow_id |-> None, user_id |-> None,
                 rationale |-> None, error_code |-> None]]

CCWJPatch(args) ==
    [cls |-> "CCWJPatch",
     fields |-> [patch_type |-> Str(args.patch_type), target_id |-> Str(args.target_id),
                 changes |-> EmptyDict]]

FeedbackEntry(args, t) ==
    [cls |-> "FeedbackEntry",
     fields |-> [feedback_type |-> Str(args.feedback_type), user_id |-> None,
                 message |-> Str(args.message), rating |-> None,
                 timestamp |-> TimestampOr(args.timestamp, t)]]

WorkflowEvent(args, t) ==
    [cls |-> "WorkflowEvent",
     fields |-> [event_name |-> Str(args.event_name), workflow_id |-> Str(args.workflow_id),
                 status |-> Str(args.status), payload |-> EmptyDict,
                 timestamp |-> TimestampOr(args.timestamp, t)]]

\* ---------------------------------------------------------- serialization
\* model.model_dump(by_alias=True): the fields as a dict of Python values.
\* The dump is in Python mode, where a datetime stays a datetime; the
\* json_encoders of the model's Config apply to JSON-mode dumps only.
ModelDump(model) == model.fields

\* The JSON text of one value.
JsonText(x) ==
    CASE x.type = "str" -> <<"\"", x.v, "\"">>
      [] x.type = "dict" -> <<"{", "}">>
      [] x.type = "NoneType" -> <<"null">>

\* json.dumps(d) with the default encoder: the text of the dict, or
\* TypeError when a value is of a type the encoder does not know.
JsonDumps(d) ==
    IF \E f \in DOMAIN d : d[f].type \notin {"str", "dict", "NoneType"}
    THEN [ok |-> FALSE, error |-> "TypeError"]
    ELSE [ok |-> TRUE, text |-> [f \in DOMAIN d |-> JsonText(d[f])]]

\* ------------------------------------------- integers as Redis strings
\* Redis keeps a counter as the decimal text of the number; INCR parses
\* the text, adds one and writes the text back, and get_rate_limit parses
\* the bytes it reads with int(count_bytes.decode('utf-8')).
RECURSIVE Digits(_)
Digits(n) == IF n < 10 THEN <<n>> ELSE Append(Digits(n \div 10), n % 10)

RECURSIVE IntOf(_)
IntOf(s) ==
    IF Len(s) = 0 THEN 0
    ELSE 10 * IntOf(SubSeq(s, 1, Len(s) - 1)) + s[Len(s)]

\* ------------------------------------------------------- Redis commands
\* A database is a function from the keys that exist to
\* [val, volatile, deadline]: volatile says the key has an expiry.
Without(db, k) == [x \in DOMAIN db \ {k} |-> db[x]]

With(db, k, entry) == [x \in DOMAIN db \cup {k} |-> IF x = k THEN entry ELSE db[x]]

\* Keys whose deadline the clock t has passed are gone.
Expired(db, t) == {k \in DOMAIN db : db[k].volatile /\ t > db[k].deadline}

Purge(db, t) == [x \in DOMAIN db \ Expired(db, t) |-> db[x]]

\* SET key val EX ex, the NX option left out: overwrites a live key.
SetEx(db, k, val, ex, t) ==
    [db |-> With(db, k, [val |-> val, volatile |-> TRUE, deadline |-> t + ex]),
     reply |-> TRUE]

\* SET NX EX whose reply is taken for success whether or not it wrote.
SetNxExAlwaysOk(db, k, val, ex, t) ==
    IF k \in DOMAIN db
    THEN [db |-> db, reply |-> TRUE]
    ELSE [db |-> With(db, k, [val |-> val, volatile |-> TRUE, deadline |-> t + ex]),
          reply |-> TRUE]

\* SET key val NX, the EX option left out: the key never expires.
SetNx(db, k, val, ex, t) ==
    IF k \in DOMAIN db
    THEN [db |-> db, reply |-> FALSE]
    ELSE [db |-> With(db, k, [val |-> val, volatile |-> FALSE, deadline |-> 0]),
          reply |-> TRUE]

\* SET NX EX that, when refused, still moves the key's deadline to t + ex.
SetNxExRefresh(db, k, val, ex, t) ==
    IF k \in DOMAIN db
    THEN [db |-> With(db, k, [db[k] EXCEPT !.deadline = t + ex]), reply |-> FALSE]
    ELSE [db |-> With(db, k, [val |-> val, volatile |-> TRUE, deadline |-> t + ex]),
          reply |-> TRUE]

\* SET key val EX ex NX: writes only when the key is absent; redis-py
\* gives True for the OK reply and None otherwise.
SetNxEx(db, k, val, ex, t) ==
    IF k \in DOMAIN db
    THEN [db |-> db, reply |-> FALSE]
    ELSE [db |-> With(db, k, [val |-> val, volatile |-> TRUE, deadline |-> t + ex]),
          reply |-> TRUE]

\* DEL that counts the key it was asked to remove, present or not.
DelAlwaysOne(db, k) == [db |-> Without(db, k), reply |-> 1]

\* DEL that reports the key but leaves it in place.
DelKeepsKey(db, k) ==
    IF k \in DOMAIN db
    THEN [db |-> db, reply |-> 1]
    ELSE [db |-> db, reply |-> 0]

\* DEL key: the number of keys removed.
Del(db, k) ==
    IF k \in DOMAIN db
    THEN [db |-> Without(db, k), reply |-> 1]
    ELSE [db |-> db, reply |-> 0]

\* INCR key: an absent key counts as 0 and is created without an expiry;
\* an existing key keeps its expiry.
Incr(db, k) ==
    LET old == IF k \in DOMAIN db THEN IntOf(db[k].val) ELSE 0
        entry == IF k \in DOMAIN db
                 THEN [db[k] EXCEPT !.val = Digits(old + 1)]
                 ELSE [val |-> Digits(old + 1), volatile |-> FALSE, deadline |-> 0]
    IN [db |-> With(db, k, entry), reply |-> old + 1]

\* EXPIRE key seconds: 1 when the key exists and the deadline was set.
SetDeadline(db, k, seconds, t) ==
    [db |-> With(db, k, [db[k] EXCEPT !.volatile = TRUE, !.deadline = t + seconds]),
     reply |-> 1]

\* EXPIRE key seconds NX: sets the deadline only of a key that has none, so
\* the window runs from the first hit.
ExpireIfNone(db, k, seconds, t) ==
    IF k \in DOMAIN db /\ ~db[k].volatile
    THEN SetDeadline(db, k, seconds, t)
    ELSE [db |-> db, reply |-> 0]

Expire(db, k, seconds, t) ==
    IF k \in DOMAIN db
    THEN SetDeadline(db, k, seconds, t)
    ELSE [db |-> db, reply |-> 0]

\* GET on a client that decodes replies: a str, not bytes.
GetDecoded(db, k) == [isBytes |-> FALSE, bytes |-> IF k \in DOMAIN db THEN db[k].val ELSE <<>>]

\* GET key: the bytes of the value, or None.
Get(db, k) ==
    IF k \in DOMAIN db
    THEN [isBytes |-> TRUE, bytes |-> db[k].val]
    ELSE [isBytes |-> FALSE, bytes |-> <<>>]

\* The pipeline with its commands in the other order: EXPIRE finds no key
\* on the first hit, and INCR creates the key without an expiry.
PipelineExpireIncr(db, k, seconds, t) ==
    LET first == Expire(db, k, seconds, t)
        second == Incr(first.db, k)
    IN [db |-> second.db, replies |-> <<second.reply, first.reply>>]

\* The expiry set only by the hit that creates the counter (count = 1).
PipelineExpireOnFirst(db, k, seconds, t) ==
    LET first == Incr(db, k)
        second == IF first.reply = 1
                  THEN Expire(first.db, k, seconds, t)
                  ELSE [db |-> first.db, reply |-> 0]
    IN [db |-> second.db, replies |-> <<first.reply, second.reply>>]

\* pipe = redis_client.pipeline(); pipe.incr(..); pipe.expire(..);
\* pipe.execute(): redis-py's pipeline is transactional by default, so the
\* two commands run as one MULTI/EXEC block; the replies come back in order.
PipelineIncrExpire(db, k, seconds, t) ==
    LET first == Incr(db, k)
        second == Expire(first.db, k, seconds, t)
    IN [db |-> second.db, replies |-> <<first.reply, second.reply>>]

\* XADD key MAXLEN 1 * data text: the stream is trimmed to its newest entry.
XAddMaxLen1(db, k, text, t) ==
    LET old == IF k \in DOMAIN db THEN db[k].val ELSE <<>>
        seq == Cardinality({n \in 1..Len(old) : old[n].id[1] = t})
        id == <<t, seq>>
        entry == [val |-> <<[id |-> id, data |-> text]>>,
                  volatile |-> FALSE, deadline |-> 0]
    IN [db |-> With(db, k, entry), reply |-> id]

\* XADD key * data text: appends one entry to the stream at key, creating
\* the stream when the key is absent.  The entry's ID is the clock and a
\* sequence number within the same instant.  A stream has no expiry.
XAdd(db, k, text, t) ==
    LET old == IF k \in DOMAIN db THEN db[k].val ELSE <<>>
        seq == Cardinality({n \in 1..Len(old) : old[n].id[1] = t})
        id == <<t, seq>>
        entry == [val |-> Append(old, [id |-> id, data |-> text]),
                  volatile |-> FALSE, deadline |-> 0]
    IN [db |-> With(db, k, entry), reply |-> id]

\* ------------------------------------------------------ MongoDB commands
\* collection.insert_one(doc): the document gets a fresh _id and is added
\* to the collection.
InsertOne(m, coll, doc) ==
    LET id == [type |-> "ObjectId", v |-> Len(m[coll]) + 1]
    IN [m EXCEPT ![coll] = Append(@, ("_id" :> id) @@ doc)]

\* ---------------------------------------------------------------- state
VARIABLES
    now,       \* the store's clock, in seconds
    redis,     \* the Redis database: the keys that exist
    mongo,     \* the MongoDB database poma: per collection, its documents
    hist       \* the tool calls made so far, in the order of their store calls

vars == <<now, redis, mongo, hist>>

\* The calls one of whose store calls failed.
Faults == {i \in 1..Len(hist) : \E n \in 1..Len(hist[i].store) : hist[i].store[n] = "failed"}

\* A tool call: who called what with which arguments, when its store call
\* ran, whether that call changed a database (wrote), the outcome of each
\* store call the handler issued, in order (store), and whether the handler
\* returned value or raised.
Call(c, op, k, arg, wrote, store, status, value) ==
    [caller |-> c, op |-> op, key |-> k, arg |-> arg, at |-> now,
     wrote |-> wrote, store |-> store, status |-> status, value |-> value]

Init ==
    /\ now = 0
    /\ redis = <<>>
    /\ mongo = [coll \in Collections |-> <<>>]
    /\ hist = <<>>

\* An except clause that swallows the store failure and returns False.
ReturnOnFailure(c, op, k, arg) ==
    /\ Cardinality(Faults) < MaxFaults
    /\ hist' = Append(hist, Call(c, op, k, arg, FALSE, <<"failed">>, "returned", FALSE))
    /\ UNCHANGED <<now, redis, mongo>>

\* The handler's store call fails (connection or command error): the
\* command did not run, and the handler's except clause re-raises.
Raise(c, op, k, arg) ==
    /\ Cardinality(Faults) < MaxFaults
    /\ hist' = Append(hist, Call(c, op, k, arg, FALSE, <<"failed">>, "raised", "exception"))
    /\ UNCHANGED <<now, redis, mongo>>

\* The store call ran, leaving the database db; the handler returns value.
Return(c, op, k, arg, db, value) ==
    /\ redis' = db
    /\ hist' = Append(hist, Call(c, op, k, arg, db # redis, <<"ok">>, "returned", value))
    /\ UNCHANGED <<now, mongo>>

\* ---------------------------------------------------------------- tools
\* return bool(redis_client.set(f"mcp:locks:{resource_name}", "locked",
\*                              ex=timeout_seconds, nx=True))
acquire_lock(c, resource_name, timeout_seconds) ==
    /\ Len(hist) < MaxOps
    /\ LET k == LockKey(resource_name)
           r == SetNxEx(redis, k, "locked", timeout_seconds, now)
       IN \/ Return(c, "acquire_lock", k, timeout_seconds, r.db, r.reply)
          \/ Raise(c, "acquire_lock", k, timeout_seconds)

\* A release that checks ownership: it deletes the key only for the caller
\* whose acquire wrote the marker last.
release_lock_by_owner(c, resource_name) ==
    /\ Len(hist) < MaxOps
    /\ LET k == LockKey(resource_name)
           won == {i \in 1..Len(hist) :
                      /\ hist[i].op = "acquire_lock"
                      /\ hist[i].key = k
                      /\ hist[i].status = "returned"
                      /\ hist[i].value = TRUE}
           last == CHOOSE i \in won : \A j \in won : j <= i
           r == IF won # {} /\ hist[last].caller = c
                THEN Del(redis, k)
                ELSE [db |-> redis, reply |-> 0]
       IN \/ Return(c, "release_lock", k, 0, r.db, r.reply = 1)
          \/ Raise(c, "release_lock", k, 0)

\* return redis_client.delete(f"mcp:locks:{resource_name}") == 1
release_lock(c, resource_name) ==
    /\ Len(hist) < MaxOps
    /\ LET k == LockKey(resource_name)
           r == Del(redis, k)
       IN \/ Return(c, "release_lock", k, 0, r.db, r.reply = 1)
          \/ Raise(c, "release_lock", k, 0)

\* count, _ = pipe.execute(); return count
increment_rate_limit(c, key, window_seconds) ==
    /\ Len(hist) < MaxOps
    /\ LET k == RateKey(key)
           r == PipelineIncrExpire(redis, k, window_seconds, now)
       IN \/ Return(c, "increment_rate_limit", k, window_seconds, r.db, r.replies[1])
          \/ Raise(c, "increment_rate_limit", k, window_seconds)

\* count_bytes = redis_client.get(..)
\* return int(count_bytes.decode('utf-8')) if isinstance(count_bytes, bytes) else 0
get_rate_limit(c, key) ==
    /\ Len(hist) < MaxOps
    /\ LET k == RateKey(key)
           count_bytes == Get(redis, k)
       IN \/ Return(c, "get_rate_limit", k, 0, redis,
                    IF count_bytes.isBytes THEN IntOf(count_bytes.bytes) ELSE 0)
          \/ Raise(c, "get_rate_limit", k, 0)

\* json.dumps raised inside the try block before any store call was made;
\* the except clause re-raises.
Unserializable(c, op, k, arg, error) ==
    /\ hist' = Append(hist, Call(c, op, k, arg, FALSE, <<>>, "raised", error))
    /\ UNCHANGED <<now, redis, mongo>>

\* xadd ran, leaving the database db, and insert_one then failed: the
\* except clause re-raises and the stream keeps the entry.
RaiseAfterAppend(c, op, k, arg, db) ==
    /\ Cardinality(Faults) < MaxFaults
    /\ redis' = db
    /\ hist' = Append(hist, Call(c, op, k, arg, TRUE, <<"ok", "failed">>, "raised", "exception"))
    /\ UNCHANGED <<now, mongo>>

\* xadd and insert_one both ran, leaving db and docs; the handler returns.
ReturnMirrored(c, op, k, arg, db, docs, value) ==
    /\ redis' = db
    /\ mongo' = docs
    /\ hist' = Append(hist, Call(c, op, k, arg, TRUE, <<"ok", "ok">>, "returned", value))
    /\ UNCHANGED now

\* The audit handler with its two statements in the other order: insert_one
\* runs before json.dumps and xadd.
log_audit_event_insert_first(c, audit_entry) ==
    /\ Len(hist) < MaxOps
    /\ LET k == Topic("audit_log_stream")
           data == JsonDumps(ModelDump(audit_entry))
           docs == InsertOne(mongo, "audit_logs", ModelDump(audit_entry))
       IN \/ Raise(c, "log_audit_event", k, audit_entry)
          \/ /\ ~data.ok
             /\ mongo' = docs
             /\ hist' = Append(hist, Call(c, "log_audit_event", k, audit_entry, TRUE,
                                         <<"ok">>, "raised", data.error))
             /\ UNCHANGED <<now, redis>>
          \/ /\ data.ok
             /\ ReturnMirrored(c, "log_audit_event", k, audit_entry,
                               XAdd(redis, k, data.text, now).db, docs,
                               "Audit event logged successfully to Redis and MongoDB.")

\* redis_client.xadd("mcp:audit_log_stream", {"data": json.dumps(..)})
\* db.audit_logs.insert_one(audit_entry.model_dump(by_alias=True))
log_audit_event(c, audit_entry) ==
    /\ Len(hist) < MaxOps
    /\ LET k == Topic("audit_log_stream")
           data == JsonDumps(ModelDump(audit_entry))
       IN IF ~data.ok
          THEN Unserializable(c, "log_audit_event", k, audit_entry, data.error)
          ELSE LET x == XAdd(redis, k, data.text, now)
               IN \/ Raise(c, "log_audit_event", k, audit_entry)
                  \/ RaiseAfterAppend(c, "log_audit_event", k, audit_entry, x.db)
                  \/ ReturnMirrored(c, "log_audit_event", k, audit_entry, x.db,
                                    InsertOne(mongo, "audit_logs", ModelDump(audit_entry)),
                                    "Audit event logged successfully to Redis and MongoDB.")

\* The CCWJ publish bound to the workflow topic instead of its own.
publish_ccwj_update_on_workflow_events(c, ccwj_patch) ==
    /\ Len(hist) < MaxOps
    /\ LET k == Topic("workflow_events")
           data == JsonDumps(ModelDump(ccwj_patch))
       IN IF ~data.ok
          THEN Unserializable(c, "publish_ccwj_update", k, ccwj_patch, data.error)
          ELSE LET x == XAdd(redis, k, data.text, now)
               IN \/ Raise(c, "publish_ccwj_update", k, ccwj_patch)
                  \/ Return(c, "publish_ccwj_update", k, ccwj_patch, x.db,
                            "CCWJ update published successfully.")

\* redis_client.xadd("mcp:ccwj_update_stream", {"data": json.dumps(..)})
publish_ccwj_update(c, ccwj_patch) ==
    /\ Len(hist) < MaxOps
    /\ LET k == Topic("ccwj_update_stream")
           data == JsonDumps(ModelDump(ccwj_patch))
       IN IF ~data.ok
          THEN Unserializable(c, "publish_ccwj_update", k, ccwj_patch, data.error)
          ELSE LET x == XAdd(redis, k, data.text, now)
               IN \/ Raise(c, "publish_ccwj_update", k, ccwj_patch)
                  \/ Return(c, "publish_ccwj_update", k, ccwj_patch, x.db,
                            "CCWJ update published successfully.")

\* redis_client.xadd("mcp:user_feedback", {"data": json.dumps(..)})
\* db.user_feedback.insert_one(feedback_entry.model_dump(by_alias=True))
publish_user_feedback(c, feedback_entry) ==
    /\ Len(hist) < MaxOps
    /\ LET k == Topic("user_feedback")
           data == JsonDumps(ModelDump(feedback_entry))
       IN IF ~data.ok
          THEN Unserializable(c, "publish_user_feedback", k, feedback_entry, data.error)
          ELSE LET x == XAdd(redis, k, data.text, now)
               IN \/ Raise(c, "publish_user_feedback", k, feedback_entry)
                  \/ RaiseAfterAppend(c, "publish_user_feedback", k, feedback_entry, x.db)
                  \/ ReturnMirrored(c, "publish_user_feedback", k, feedback_entry, x.db,
                                    InsertOne(mongo, "user_feedback", ModelDump(feedback_entry)),
                                    "User feedback published to Redis and archived in MongoDB successfully.")

\* redis_client.xadd("mcp:workflow_events", {"data": json.dumps(..)})
publish_workflow_event(c, workflow_event) ==
    /\ Len(hist) < MaxOps
    /\ LET k == Topic("workflow_events")
           data == JsonDumps(ModelDump(workflow_event))
       IN IF ~data.ok
          THEN Unserializable(c, "publish_workflow_event", k, workflow_event, data.error)
          ELSE LET x == XAdd(redis, k, data.text, now)
               IN \/ Raise(c, "publish_workflow_event", k, workflow_event)
                  \/ Return(c, "publish_workflow_event", k, workflow_event, x.db,
                            "Workflow event published successfully.")

\* One second passes on the store's clock; the keys past their deadline
\* are removed.
Tick ==
    /\ now < MaxTime
    /\ now' = now + 1
    /\ redis' = Purge(redis, now + 1)
    /\ UNCHANGED <<mongo, hist>>

\* ------------------------------------------------------- specifications
LockNext ==
    \/ Tick
    \/ \E c \in Callers, r \in Resources, d \in Durations : acquire_lock(c, r, d)
    \/ \E c \in Callers, r \in Resources : release_lock(c, r)

RateNext ==
    \/ Tick
    \/ \E c \in Callers, k \in RateKeys, d \in Durations : increment_rate_limit(c, k, d)
    \/ \E c \in Callers, k \in RateKeys : get_rate_limit(c, k)

PublishNext ==
    \/ Tick
    \/ \E c \in Publishers, a \in AuditArgs : log_audit_event(c, AuditLogEntry(a))
    \/ \E c \in Publishers, a \in PatchArgs : publish_ccwj_update(c, CCWJPatch(a))
    \/ \E c \in Publishers, a \in FeedbackArgs : publish_user_feedback(c, FeedbackEntry(a, now))
    \/ \E c \in Publishers, a \in WorkflowArgs : publish_workflow_event(c, WorkflowEvent(a, now))

Next ==
    \/ LockNext
    \/ RateNext
    \/ PublishNext

Spec == Init /\ [][Next]_vars

PublishSpec == Init /\ [][PublishNext]_vars

\* Every tool of the subsystem, called by one client.
MixedNext ==
    \/ Tick
    \/ \E c \in Publishers, r \in Resources : acquire_lock(c, r, MaxTTL)
    \/ \E c \in Publishers, r \in Resources : release_lock(c, r)
    \/ \E c \in Publishers, k \in RateKeys : increment_rate_limit(c, k, MaxTTL)
    \/ \E c \in Publishers, k \in RateKeys : get_rate_limit(c, k)
    \/ \E c \in Publishers, a \in AuditArgs : log_audit_event(c, AuditLogEntry(a))
    \/ \E c \in Publishers, a \in PatchArgs : publish_ccwj_update(c, CCWJPatch(a))
    \/ \E c \in Publishers, a \in FeedbackArgs : publish_user_feedback(c, FeedbackEntry(a, now))
    \/ \E c \in Publishers, a \in WorkflowArgs : publish_workflow_event(c, WorkflowEvent(a, now))

MixedSpec == Init /\ [][MixedNext]_vars

LockSpec == Init /\ [][LockNext]_vars

\* The lock tools called by three clients.
HoldersNext ==
    \/ Tick
    \/ \E c \in Holders, r \in Resources, d \in Durations : acquire_lock(c, r, d)
    \/ \E c \in Holders, r \in Resources : release_lock(c, r)

HoldersSpec == Init /\ [][HoldersNext]_vars

RateSpec == Init /\ [][RateNext]_vars

\* -------------------------------------------------- reading the history
Idx == 1..Len(hist)

\* Call i was op on key k and returned (did not raise).
Ret(i, op, k) ==
    /\ hist[i].op = op
    /\ hist[i].key = k
    /\ hist[i].status = "returned"

Acquired(i, k) == Ret(i, "acquire_lock", k) /\ hist[i].value = TRUE

Released(i, k) == Ret(i, "release_lock", k) /\ hist[i].value = TRUE

\* Some call strictly between i and j changed key k.
ChangedBetween(i, j, k) ==
    \E m \in (i + 1)..(j - 1) : hist[m].key = k /\ hist[m].wrote

\* The lock that call i acquired is still live when call n runs: its TTL
\* has not elapsed and no release of it has returned true.
HeldFrom(i, n, k) ==
    /\ i < n
    /\ Acquired(i, k)
    /\ hist[n].at <= hist[i].at + hist[i].arg
    /\ ~\E m \in (i + 1)..(n - 1) : Released(m, k)

HeldBefore(n, k) == \E i \in 1..(n - 1) : HeldFrom(i, n, k)

\* Calls i < j are two acquire_lock calls on k with the same TTL that run at
\* the same instant with no other call on k between them, on a resource
\* with no live lock.
Race(i, j, k) ==
    /\ i < j
    /\ Ret(i, "acquire_lock", k)
    /\ Ret(j, "acquire_lock", k)
    /\ hist[i].arg = hist[j].arg
    /\ hist[i].at = hist[j].at
    /\ ~HeldBefore(i, k)
    /\ \A m \in (i + 1)..(j - 1) : hist[m].key # k \/ hist[m].status = "raised"

\* ------------------------------------------------------------ the locks
\* C1: when two acquire_lock calls on a resource with no live lock race with
\* the same TTL, in either order, exactly one returns true and the other
\* returns false.
C1_RaceHasOneWinner ==
    \A r \in Resources : \A i, j \in Idx :
        Race(i, j, LockKey(r)) => hist[i].value # hist[j].value

\* Both orders of a race between A and B have happened.
C1_Witness ==
    \E r \in Resources : \E i, j, m, n \in Idx :
        /\ Race(i, j, LockKey(r)) /\ hist[i].caller = "A" /\ hist[j].caller = "B"
        /\ Race(m, n, LockKey(r)) /\ hist[m].caller = "B" /\ hist[n].caller = "A"

\* C2: after an acquire_lock on a resource returned true, no other
\* acquire_lock on it returns true until the lock's TTL has elapsed or a
\* release_lock on it has returned true; and an acquire_lock returns true
\* exactly when it is the call that wrote the lock marker.
C2_MutualExclusion ==
    \A r \in Resources :
        LET k == LockKey(r) IN
        /\ \A i, j \in Idx :
               (i < j /\ Acquired(i, k) /\ Acquired(j, k))
               => \/ hist[j].at > hist[i].at + hist[i].arg
                  \/ \E m \in (i + 1)..(j - 1) : Released(m, k)
        /\ \A i \in Idx :
               Ret(i, "acquire_lock", k) => (hist[i].value = hist[i].wrote)

\* A lock was acquired, a second acquire was refused while it was live, and
\* a third succeeded after the TTL had elapsed, with no release.
C2_Witness ==
    \E r \in Resources : \E i, j, n \in Idx :
        LET k == LockKey(r) IN
        /\ i < j /\ j < n
        /\ Acquired(i, k)
        /\ Ret(j, "acquire_lock", k) /\ hist[j].value = FALSE /\ ~hist[j].wrote
        /\ Acquired(n, k) /\ hist[n].wrote
        /\ hist[n].at > hist[i].at + hist[i].arg
        /\ \A m \in Idx : ~Released(m, k)

\* Calls i < j: i acquired the lock on k, j is an acquire_lock on k that
\* returned, and nothing changed the key between them (nobody released it,
\* nobody else acquired it).
Unreleased(i, j, k) ==
    /\ i < j
    /\ Acquired(i, k)
    /\ Ret(j, "acquire_lock", k)
    /\ ~ChangedBetween(i, j, k)

\* C3 as stated: after acquire_lock(r, ttl) returned true and nobody
\* released, an acquire_lock on r made once at least ttl seconds have
\* elapsed returns true.
C3_AtLeastTtl ==
    \A r \in Resources : \A i, j \in Idx :
        (Unreleased(i, j, LockKey(r)) /\ hist[j].at >= hist[i].at + hist[i].arg)
        => hist[j].value = TRUE

\* C3 amended: ... an acquire_lock on r made once more than ttl seconds
\* have elapsed returns true, and one made up to and including the ttl-th
\* second returns false.
C3_LockExpires ==
    \A r \in Resources : \A i, j \in Idx :
        Unreleased(i, j, LockKey(r))
        => (hist[j].value = (hist[j].at > hist[i].at + hist[i].arg))

\* A lock nobody released was acquired again after its TTL had elapsed.
C3_Witness ==
    \E r \in Resources : \E i, j \in Idx :
        /\ Unreleased(i, j, LockKey(r))
        /\ hist[j].at > hist[i].at + hist[i].arg
        /\ hist[j].value = TRUE
        /\ \A m \in Idx : hist[m].op # "release_lock"

\* C4: release_lock returns true exactly when the resource has a live lock,
\* whoever calls it, and so once per held lock: of two releases that
\* returned true, an acquire returned true in between; on a resource never
\* acquired, already released or expired it returns false.  It returns true
\* exactly when it deleted the key.
C4_ReleaseOncePerLock ==
    \A r \in Resources :
        LET k == LockKey(r) IN
        /\ \A n \in Idx :
               Ret(n, "release_lock", k)
               => /\ hist[n].value = HeldBefore(n, k)
                  /\ hist[n].value = hist[n].wrote
        /\ \A m, n \in Idx :
               (m < n /\ Released(m, k) /\ Released(n, k))
               => \E i \in (m + 1)..(n - 1) : Acquired(i, k)

\* A caller acquired the lock, and of two releases made at the same instant
\* the first, by the other caller, returned true and the second, by the
\* holder, returned false.
C4_Witness ==
    \E r \in Resources : \E i, m, n \in Idx :
        LET k == LockKey(r) IN
        /\ i < m /\ m < n
        /\ Acquired(i, k)
        /\ Released(m, k) /\ hist[m].caller # hist[i].caller
        /\ Ret(n, "release_lock", k) /\ hist[n].value = FALSE
        /\ hist[n].caller = hist[i].caller
        /\ hist[m].at = hist[n].at

\* Calls i..i+3 are acquire_lock(r, d), acquire_lock(r, d) at the same
\* instant, release_lock(r), acquire_lock(r, d), all made before the first
\* call's TTL has elapsed, starting from a resource with no lock.
Scenario(i, k, d) ==
    /\ i + 3 <= Len(hist)
    /\ Ret(i, "acquire_lock", k) /\ hist[i].arg = d
    /\ Ret(i + 1, "acquire_lock", k) /\ hist[i + 1].arg = d
    /\ Ret(i + 2, "release_lock", k)
    /\ Ret(i + 3, "acquire_lock", k) /\ hist[i + 3].arg = d
    /\ ~HeldBefore(i, k)
    /\ hist[i + 1].at = hist[i].at
    /\ hist[i + 3].at <= hist[i].at + d

\* C5: the scenario returns true, false, true, true: a release that returned
\* true lets the next acquire succeed although the first TTL has not elapsed.
C5_ReleaseThenAcquire ==
    \A r \in Resources, d \in Durations : \A i \in Idx :
        Scenario(i, LockKey(r), d)
        => /\ hist[i].value = TRUE
           /\ hist[i + 1].value = FALSE
           /\ hist[i + 2].value = TRUE
           /\ hist[i + 3].value = TRUE

\* The scenario has run, with all four calls at one instant.
C5_Witness ==
    \E r \in Resources, d \in Durations : \E i \in Idx :
        /\ Scenario(i, LockKey(r), d)
        /\ hist[i + 3].at = hist[i].at
        /\ hist[i + 3].value = TRUE

\* ----------------------------------------------------- the rate counters
Incremented(i, k) == Ret(i, "increment_rate_limit", k)

\* Calls i < j are increments of k with no increment of k between them.
Consecutive(i, j, k) ==
    /\ i < j
    /\ Incremented(i, k)
    /\ Incremented(j, k)
    /\ \A m \in (i + 1)..(j - 1) : ~Incremented(m, k)

FirstIncrement(j, k) ==
    /\ Incremented(j, k)
    /\ \A m \in 1..(j - 1) : ~Incremented(m, k)

LastIncrement(i, k) ==
    /\ Incremented(i, k)
    /\ \A m \in (i + 1)..Len(hist) : ~Incremented(m, k)

\* C6: increment_rate_limit(k, w) called repeatedly with gaps shorter than
\* w seconds returns 1, 2, 3, ...: the first call returns 1 and each later
\* call returns the previous return plus one, however long the run lasts.
C6_CountsUpWhileHit ==
    \A key \in RateKeys :
        LET k == RateKey(key) IN
        /\ \A j \in Idx : FirstIncrement(j, k) => hist[j].value = 1
        /\ \A i, j \in Idx :
               (/\ Consecutive(i, j, k)
                /\ hist[i].arg = hist[j].arg
                /\ hist[j].at - hist[i].at < hist[j].arg)
               => hist[j].value = hist[i].value + 1

\* Four calls with window w, each less than w after the one before, returned
\* 1, 2, 3, 4 over a run longer than w.
C6_Witness ==
    \E key \in RateKeys, w \in Durations :
        LET k == RateKey(key) IN
        /\ Len(hist) = 4
        /\ \A i \in 1..4 : Incremented(i, k) /\ hist[i].arg = w /\ hist[i].value = i
        /\ \A i \in 1..3 : hist[i + 1].at - hist[i].at < w
        /\ hist[4].at - hist[1].at > w

\* C7: the increment and the expiry reset take effect as one unit: in every
\* state a counter key that exists has an expiry, and its value and deadline
\* are those of the latest increment (the count it returned, its time plus
\* its window_seconds); increments of one key at the same instant return
\* consecutive counts.
C7_IncrementAndExpiryTogether ==
    \A key \in RateKeys :
        LET k == RateKey(key) IN
        /\ k \in DOMAIN redis
           => /\ redis[k].volatile
              /\ \E i \in Idx :
                     /\ LastIncrement(i, k)
                     /\ IntOf(redis[k].val) = hist[i].value
                     /\ redis[k].deadline = hist[i].at + hist[i].arg
        /\ \A i, j \in Idx :
               (Consecutive(i, j, k) /\ hist[i].at = hist[j].at)
               => hist[j].value = hist[i].value + 1

\* Two callers incremented a fresh key at the same instant, with different
\* windows, and got 1 and 2; the key carries the second call's deadline.
C7_Witness ==
    \E key \in RateKeys : \E i, j \in Idx :
        LET k == RateKey(key) IN
        /\ Consecutive(i, j, k) /\ LastIncrement(j, k)
        /\ hist[i].at = hist[j].at
        /\ hist[i].caller # hist[j].caller
        /\ hist[i].arg > hist[j].arg
        /\ hist[i].value = 1 /\ hist[j].value = 2
        /\ k \in DOMAIN redis
        /\ redis[k].deadline = hist[j].at + hist[j].arg

\* The counter of k as the history gives it just before call n: 0 when k was
\* never incremented or the latest increment's window has run out, else the
\* count the latest increment returned.
CounterBefore(n, k) ==
    IF \E i \in 1..(n - 1) : Incremented(i, k)
    THEN LET i == CHOOSE x \in 1..(n - 1) :
                      /\ Incremented(x, k)
                      /\ \A m \in (x + 1)..(n - 1) : ~Incremented(m, k)
         IN IF hist[n].at > hist[i].at + hist[i].arg THEN 0 ELSE hist[i].value
    ELSE 0

C9_MinusOneOnMissOrError ==
    \A key \in RateKeys : \A n \in Idx :
        (hist[n].op = "get_rate_limit" /\ hist[n].key = RateKey(key))
        => /\ hist[n].status = "returned"
           /\ CounterBefore(n, RateKey(key)) = 0 => hist[n].value = -1
           /\ CounterBefore(n, RateKey(key)) > 0
              => hist[n].value = CounterBefore(n, RateKey(key))

\* C10: the window refreshes: after every increment_rate_limit(k, w) the key
\* lives until w seconds after that call, not after the first one, and the
\* counter resets only after a gap exceeding w, the next increment then
\* returning 1; after a shorter gap it counts on.
C10_RefreshingWindow ==
    \A key \in RateKeys :
        LET k == RateKey(key) IN
        /\ \A i \in Idx :
               LastIncrement(i, k)
               => /\ k \in DOMAIN redis <=> now <= hist[i].at + hist[i].arg
                  /\ k \in DOMAIN redis => redis[k].deadline = hist[i].at + hist[i].arg
        /\ \A i, j \in Idx :
               Consecutive(i, j, k)
               => hist[j].value = (IF hist[j].at - hist[i].at > hist[i].arg
                                   THEN 1
                                   ELSE hist[i].value + 1)

\* With window w the counter reached 3 on a hit made after the first hit's
\* window had run out, and a hit after a gap longer than w returned 1.
C10_Witness ==
    \E key \in RateKeys, w \in Durations :
        LET k == RateKey(key) IN
        /\ Len(hist) = 4
        /\ \A i \in 1..4 : Incremented(i, k) /\ hist[i].arg = w
        /\ hist[3].value = 3
        /\ hist[3].at > hist[1].at + w
        /\ hist[4].at - hist[3].at > w
        /\ hist[4].value = 1

\* ------------------------------------------------------- reading the logs
\* The entries of the topic log at key k, oldest first (XRANGE k - +).
Stream(k) == IF k \in DOMAIN redis THEN redis[k].val ELSE <<>>

\* The stream entry holds the record: its data field is the record's JSON
\* text.  A record that has no JSON text is held by no entry.
Holds(entry, model) ==
    LET data == JsonDumps(ModelDump(model))
    IN data.ok /\ entry.data = data.text

\* Call i was the publish tool op, and no store call of it failed.
Published(i, op) ==
    /\ hist[i].op = op
    /\ \A n \in 1..Len(hist[i].store) : hist[i].store[n] = "ok"

\* C11: within the workflow_events topic the read-back order is the arrival
\* order: of two publish_workflow_event calls that both reached an available
\* store, the earlier call's event is in the log before the later call's.
\* (publish_workflow_event raises TypeError on the record's datetime
\* timestamp before it reaches xadd, so the log stays empty.)
C11_AppendOrder ==
    \A i, j \in Idx :
        (/\ i < j
         /\ Published(i, "publish_workflow_event")
         /\ Published(j, "publish_workflow_event"))
        => \E m, n \in 1..Len(Stream(Topic("workflow_events"))) :
               /\ m < n
               /\ Holds(Stream(Topic("workflow_events"))[m], hist[i].arg)
               /\ Holds(Stream(Topic("workflow_events"))[n], hist[j].arg)

PublishOps ==
    {"log_audit_event", "publish_ccwj_update", "publish_user_feedback", "publish_workflow_event"}

\* The collection a publish tool mirrors to, if any.
MirrorOf(op) ==
    CASE op = "log_audit_event" -> {"audit_logs"}
      [] op = "publish_user_feedback" -> {"user_feedback"}
      [] OTHER -> {}

\* The string a publish tool returns on success.
SuccessOf(op) ==
    CASE op = "log_audit_event" -> "Audit event logged successfully to Redis and MongoDB."
      [] op = "publish_ccwj_update" -> "CCWJ update published successfully."
      [] op = "publish_user_feedback" ->
             "User feedback published to Redis and archived in MongoDB successfully."
      [] op = "publish_workflow_event" -> "Workflow event published successfully."

\* The topic log at k has an entry holding the record.
Logged(k, model) == \E n \in 1..Len(Stream(k)) : Holds(Stream(k)[n], model)

\* The collection has a document made of the record's fields.
Mirrored(coll, model) ==
    \E n \in 1..Len(mongo[coll]) :
        \A f \in DOMAIN ModelDump(model) :
            f \in DOMAIN mongo[coll][n] /\ mongo[coll][n][f] = ModelDump(model)[f]

\* The append of call i did not fail at the store.
AppendAvailable(i) == Len(hist[i].store) = 0 \/ hist[i].store[1] = "ok"

\* C12: a mirrored publish (feedback or audit) that ends in failure although
\* the topic append was available, as it does when the durable insert fails,
\* has completed the append: the record is in the topic log, and it is not in
\* the durable collection.  (Both handlers raise TypeError in json.dumps
\* before xadd, so the record is in neither.)
C12_AppendSurvivesMirrorFailure ==
    \A i \in Idx :
        (/\ hist[i].op \in {"publish_user_feedback", "log_audit_event"}
         /\ hist[i].status = "raised"
         /\ AppendAvailable(i))
        => /\ Logged(hist[i].key, hist[i].arg)
           /\ \A coll \in MirrorOf(hist[i].op) : ~Mirrored(coll, hist[i].arg)

\* C13: a publish of any of the four kinds, made while both stores are
\* available, returns the tool's success string, has its record in the
\* kind's topic log and, when the kind is mirrored, in the mirror collection.
\* (Only publish_ccwj_update does; the three kinds with a datetime timestamp
\* raise TypeError.)
C13_PublishSucceeds ==
    \A i \in Idx :
        (hist[i].op \in PublishOps /\ Published(i, hist[i].op))
        => /\ hist[i].status = "returned"
           /\ hist[i].value = SuccessOf(hist[i].op)
           /\ Logged(hist[i].key, hist[i].arg)
           /\ \A coll \in MirrorOf(hist[i].op) : Mirrored(coll, hist[i].arg)

\* The topic a publish tool is bound to.
TopicOf(op) ==
    CASE op = "log_audit_event" -> Topic("audit_log_stream")
      [] op = "publish_ccwj_update" -> Topic("ccwj_update_stream")
      [] op = "publish_user_feedback" -> Topic("user_feedback")
      [] op = "publish_workflow_event" -> Topic("workflow_events")

\* The step is one call of a publish tool.
PublishStep ==
    /\ Len(hist') = Len(hist) + 1
    /\ hist'[Len(hist')].op \in PublishOps

\* The Redis keys whose presence or content the step changes.
KeysWritten ==
    {k \in DOMAIN redis \cup DOMAIN redis' :
        \/ k \notin DOMAIN redis
        \/ k \notin DOMAIN redis'
        \/ redis[k] # redis'[k]}

\* The MongoDB collections the step changes.
CollectionsWritten == {coll \in Collections : mongo'[coll] # mongo[coll]}

StoreCallsOf(op) == IF MirrorOf(op) = {} THEN 1 ELSE 2

IsPrefix(s, t) == Len(s) <= Len(t) /\ SubSeq(t, 1, Len(s)) = s

\* C16: topic logs are append-only: every step of every tool (publish, lock,
\* rate limit, failing or not) and of the clock leaves each topic log an
\* extension of what it was: no entry is removed, reordered or changed.
C16_AppendOnly ==
    [][\A k \in Topics : IsPrefix(Stream(k), Stream(k)')]_vars

\* Two patches were published, then an audit publish failed and a lock or
\* rate-limit tool ran; the topic still reads the two patches in order.
C16_Witness ==
    \E i, j, m, n \in Idx :
        /\ i < j /\ j < m /\ j < n
        /\ Ret(i, "publish_ccwj_update", Topic("ccwj_update_stream"))
        /\ Ret(j, "publish_ccwj_update", Topic("ccwj_update_stream"))
        /\ hist[i].arg # hist[j].arg
        /\ hist[m].op = "log_audit_event" /\ hist[m].status = "raised"
        /\ hist[n].op \in {"release_lock", "increment_rate_limit"}
        /\ hist[n].status = "returned"
        /\ Len(Stream(Topic("ccwj_update_stream"))) = 2
        /\ Holds(Stream(Topic("ccwj_update_stream"))[1], hist[i].arg)
        /\ Holds(Stream(Topic("ccwj_update_stream"))[2], hist[j].arg)

\* The fields of a stored document, its _id left out.
FieldsOf(doc) == [f \in DOMAIN doc \ {"_id"} |-> doc[f]]

\* The topic log at k has an entry whose data is the JSON text of the
\* document's fields.
DocLogged(k, doc) ==
    LET data == JsonDumps(FieldsOf(doc))
    IN data.ok /\ \E n \in 1..Len(Stream(k)) : Stream(k)[n].data = data.text

\* C17: in a mirrored publish the durable insert comes only after a
\* successful topic append: a call that issued two store calls had its first
\* (the append) succeed, a call whose serialization or append failed changed
\* nothing, and every document of audit_logs / user_feedback has its entry in
\* the collection's topic log (mirrored but not logged is unreachable).
C17_InsertOnlyAfterAppend ==
    /\ \A i \in Idx :
           MirrorOf(hist[i].op) # {}
           => /\ Len(hist[i].store) = 2 => hist[i].store[1] = "ok"
              /\ (Len(hist[i].store) = 0 \/ hist[i].store[1] = "failed") => ~hist[i].wrote
    /\ \A op \in PublishOps : \A coll \in MirrorOf(op) :
           \A n \in 1..Len(mongo[coll]) : DocLogged(TopicOf(op), mongo[coll][n])

\* Both mirrored publishes were called and failed in serialization, before
\* the append; the collections are unchanged.
C17_Witness ==
    /\ \E i \in Idx :
           /\ hist[i].op = "log_audit_event"
           /\ hist[i].status = "raised"
           /\ hist[i].store = <<>>
    /\ \E i \in Idx :
           /\ hist[i].op = "publish_user_feedback"
           /\ hist[i].status = "raised"
           /\ hist[i].store = <<>>
    /\ \A coll \in Collections : mongo[coll] = <<>>

\* Calls i < j on lock key k: caller a's acquire i returned true and its TTL
\* elapsed, then another caller b's acquire j returned true.
Handover(i, j, k) ==
    /\ i < j
    /\ Acquired(i, k)
    /\ Acquired(j, k)
    /\ hist[j].at > hist[i].at + hist[i].arg
    /\ hist[j].caller # hist[i].caller

\* Call m is the former holder's release: it returned while b's lock was
\* unexpired and nothing had changed the key since b's acquire.
LateRelease(i, j, m, k) ==
    /\ j < m
    /\ Ret(m, "release_lock", k)
    /\ hist[m].caller = hist[i].caller
    /\ ~ChangedBetween(j, m, k)
    /\ hist[m].at <= hist[j].at + hist[j].arg

\* Call n is a third caller's acquire: it returned while b's lock was
\* unexpired and nothing had changed the key since the release.
ThirdAcquire(i, j, m, n, k) ==
    /\ m < n
    /\ Ret(n, "acquire_lock", k)
    /\ hist[n].caller \notin {hist[i].caller, hist[j].caller}
    /\ ~ChangedBetween(m, n, k)
    /\ hist[n].at <= hist[j].at + hist[j].arg

\* C18: release_lock checks no ownership: after a's lock expired and b
\* acquired, a's late release returns true, deleting b's marker, and a third
\* caller's acquire then returns true although b's lock is neither expired
\* nor released: two callers hold the resource at once.
C18_LateReleaseBreaksExclusion ==
    \A k \in {LockKey(r) : r \in Resources} :
        \A i \in Idx : \A j \in Idx :
            Handover(i, j, k)
            => \A m \in Idx :
                   LateRelease(i, j, m, k)
                   => /\ hist[m].value = TRUE
                      /\ \A n \in Idx :
                             ThirdAcquire(i, j, m, n, k) => hist[n].value = TRUE

C18_Witness ==
    \E k \in {LockKey(r) : r \in Resources} :
        \E i, j, m, n \in Idx :
            /\ Handover(i, j, k)
            /\ LateRelease(i, j, m, k)
            /\ ThirdAcquire(i, j, m, n, k)
            /\ hist[m].value = TRUE
            /\ hist[n].value = TRUE
            /\ now <= hist[j].at + hist[j].arg
            /\ now <= hist[n].at + hist[n].arg

\* The step is one acquire_lock call on a resource whose lock key exists,
\* and the store call did not fail.
AcquireOnLocked ==
    /\ Len(hist') = Len(hist) + 1
    /\ hist'[Len(hist')].op = "acquire_lock"
    /\ hist'[Len(hist')].key \in DOMAIN redis
    /\ hist'[Len(hist')].store = <<"ok">>

\* C19: an acquire_lock that finds the resource locked returns false as a
\* normal result and changes nothing: the marker and its deadline are as they
\* were, whatever ttl the refused call asked for.
C19_RefusedAcquireChangesNothing ==
    [][AcquireOnLocked =>
          /\ hist'[Len(hist')].status = "returned"
          /\ hist'[Len(hist')].value = FALSE
          /\ redis' = redis]_vars

\* A lock was acquired, two acquires with different ttl values were refused,
\* and the lock is still there at its original deadline.
C19_Witness ==
    \E k \in {LockKey(r) : r \in Resources} :
        \E i, j, m \in Idx :
            /\ i < j /\ j < m
            /\ Acquired(i, k)
            /\ Ret(j, "acquire_lock", k) /\ hist[j].value = FALSE
            /\ Ret(m, "acquire_lock", k) /\ hist[m].value = FALSE
            /\ hist[j].arg # hist[m].arg
            /\ ~ChangedBetween(i, m + 1, k)
            /\ k \in DOMAIN redis
            /\ redis[k].deadline = hist[i].at + hist[i].arg
            /\ now = redis[k].deadline
            /\ hist[m].at + hist[m].arg # redis[k].deadline

====
